---- MODULE Spec2Model ----
(***************************************************************************)
(* A model of ush, the shell of src/src/main.c: the read / tokenize /      *)
(* record / dispatch / release loop, the 20-slot history ring, the         *)
(* builtin handlers and the fork / exec / wait launcher.                   *)
(*                                                                         *)
(* Text is a sequence of one-character strings.  A C buffer is such a      *)
(* sequence with the terminator NUL kept in it, so that strtok's writes    *)
(* into the line and the pointers the argument list keeps into it are      *)
(* visible; a pointer into a buffer is a 1-based offset.                   *)
(***************************************************************************)
EXTENDS Integers, Sequences, FiniteSets, TLC

(***************************************************************************)
(* Bounds of the model.                                                    *)
(***************************************************************************)
\* arguments after the command name on a typed line
MaxArgs == 2
\* lines typed in a free session
MaxLines == 1
\* lines typed in a session of directory commands
MaxDirLines == 3
\* lines typed in a session of long lines
MaxLongLines == 1
\* tokens a long line has beyond USH_TOK_BUFSIZE
MaxExtraTokens == 1
\* lines typed before the input ends in a session whose input ends
MaxEofLines == 1
\* reads the shell makes after the input has ended
MaxEofReads == 2
\* numbered commands typed in a scripted session
MaxCmds == 22
\* `history' commands typed in a scripted session
MaxListings == 1
\* child processes the system lets the shell have
MaxProcs == 2
\* length in bytes of the path of the deep directory
DeepLen == 3000

(***************************************************************************)
(* Program constants.                                                      *)
(***************************************************************************)
USH_MAX_HISTORY_COUNT == 20
USH_TOK_BUFSIZE == 64
\* sizeof(char*) of the build
PtrSize == 8

NUL == "NUL"
BEL == "BEL"
USH_TOK_DELIM == {" ", "\"", "\t", "\r", "\n", BEL, "(", ")"}

\* the null pointer: no text holds this element
NULL == <<"NULL">>

EXIT_SUCCESS == 0
EXIT_FAILURE == 1

builtin_str ==
  << <<"c","d">>, <<"h","e","l","p">>, <<"e","x","i","t">>,
     <<"e","c","h","o">>, <<"h","i","s","t","o","r","y">>, <<"p","w","d">> >>

ush_num_builtins == Len(builtin_str)

(***************************************************************************)
(* C strings.                                                              *)
(***************************************************************************)
\* index of the first NUL of buf at or after p (Len(buf)+1 when there is none)
NulAt(buf, p) ==
  LET S == {i \in p..Len(buf) : buf[i] = NUL}
  IN  IF S = {} THEN Len(buf) + 1
      ELSE CHOOSE i \in S : \A j \in p..(i - 1) : j \notin S

\* the C string that starts at offset p of buf: the bytes before the next NUL
CStr(buf, p) == SubSeq(buf, p, NulAt(buf, p) - 1)

strlen(buf, p) == NulAt(buf, p) - p

(***************************************************************************)
(* The tokenizer: strtok over the line buffer, and ush_split_line.         *)
(***************************************************************************)
\* strspn: the first offset at or after p whose byte is no delimiter
SkipDelims(buf, p) ==
  LET S == {i \in p..Len(buf) : buf[i] \notin USH_TOK_DELIM}
  IN  IF S = {} THEN Len(buf) + 1
      ELSE CHOOSE i \in S : \A j \in p..(i - 1) : j \notin S

\* strpbrk: the first offset at or after p whose byte is a delimiter, 0 when
\* the string ends first
FindDelim(buf, p) ==
  LET S == {i \in p..Len(buf) : buf[i] \in USH_TOK_DELIM \cup {NUL}}
      e == IF S = {} THEN 0
           ELSE CHOOSE i \in S : \A j \in p..(i - 1) : j \notin S
  IN  IF e = 0 \/ buf[e] = NUL THEN 0 ELSE e

\* One call of strtok with its saved pointer at p: tok is the offset of the
\* token (0: no token), buf the line after the call, save the pointer kept
\* for the next call.
strtok(buf, p) ==
  LET s == SkipDelims(buf, p)
      e == FindDelim(buf, s)
  IN  IF s > Len(buf) \/ buf[s] = NUL
        THEN [tok |-> 0, buf |-> buf, save |-> s]
      ELSE IF e = 0
        THEN [tok |-> s, buf |-> buf, save |-> NulAt(buf, s)]
      ELSE [tok |-> s, buf |-> [buf EXCEPT ![e] = NUL], save |-> e + 1]

\* One pass of the loop of ush_split_line over its state s: line is the
\* buffer, save the pointer strtok keeps, tokens the offsets written so far,
\* bufsize the variable of that name, slots the number of pointers the block
\* that realloc last returned can hold (realloc is given bufsize as its size
\* in bytes), oob whether some write went to an index outside the block,
\* done whether strtok has returned NULL.
SplitStep(s) ==
  IF s.done THEN s
  ELSE LET t == strtok(s.line, s.save)
       IN  IF t.tok = 0 THEN [s EXCEPT !.done = TRUE]
           ELSE LET toks == Append(s.tokens, t.tok)
                    grow == Len(toks) = s.bufsize
                    nb   == IF grow THEN s.bufsize * 2 ELSE s.bufsize
                IN  [line |-> t.buf, save |-> t.save, tokens |-> toks,
                     bufsize |-> nb,
                     slots |-> IF grow THEN nb \div PtrSize ELSE s.slots,
                     oob |-> s.oob \/ Len(s.tokens) >= s.slots,
                     done |-> FALSE]

\* n passes of the loop: the first half and, unless the loop has ended, the
\* rest
RECURSIVE SplitLoop(_, _)
SplitLoop(s, n) ==
  IF n = 0 THEN s
  ELSE IF n = 1 THEN SplitStep(s)
  ELSE LET r == SplitLoop(s, n \div 2)
       IN  IF r.done THEN r ELSE SplitLoop(r, n - (n \div 2))

\* ush_split_line: the loop runs until strtok returns NULL, which it does
\* within Len(buf) passes since every token takes a byte of the line; endAt
\* is the index that tokens[pos] = NULL then writes to.
ush_split_line(buf) ==
  LET s == SplitLoop([line |-> buf, save |-> 1, tokens |-> <<>>,
                      bufsize |-> USH_TOK_BUFSIZE, slots |-> USH_TOK_BUFSIZE,
                      oob |-> FALSE, done |-> FALSE], Len(buf))
  IN  [line |-> s.line, tokens |-> s.tokens, bufsize |-> s.bufsize,
       slots |-> s.slots, oob |-> s.oob \/ Len(s.tokens) >= s.slots,
       endAt |-> Len(s.tokens)]

\* args[i] of the C code (i from 0) read through the line buffer buf: the
\* text at the token's offset, NULL at and after the end marker
Arg(buf, a, i) == IF i < Len(a.tokens) THEN CStr(buf, a.tokens[i + 1]) ELSE NULL

(***************************************************************************)
(* What can be typed.                                                      *)
(***************************************************************************)
RECURSIVE Join(_, _)
Join(ws, sep) ==
  IF Len(ws) = 0 THEN <<>>
  ELSE IF Len(ws) = 1 THEN ws[1]
  ELSE Join(SubSeq(ws, 1, Len(ws) \div 2), sep) \o sep
         \o Join(SubSeq(ws, (Len(ws) \div 2) + 1, Len(ws)), sep)

SeqsUpTo(S, n) == UNION {[1..k -> S] : k \in 0..n}

ExternalWord == <<"l","s">>
\* a builtin name in another case
CapitalWord == <<"E","c","h","o">>
CmdWords ==
  {builtin_str[i] : i \in 1..ush_num_builtins} \cup {ExternalWord, CapitalWord}
DirWord == <<"d">>
ArgWords == {<<"a">>, DirWord}

\* the word lists of a line: none, or a command name and its arguments
WordLists ==
  {<<>>} \cup {<<c>> \o as : c \in CmdWords, as \in SeqsUpTo(ArgWords, MaxArgs)}

\* a line as getline returns it: lead, words, separators, trail, newline
Shapes ==
  { [lead |-> <<>>,    sep |-> <<" ">>,        trail |-> <<"\n">>],
    [lead |-> <<"\t">>, sep |-> <<" ", "\"">>, trail |-> <<")", "\n">>] }

LineOf(ws, sh) == sh.lead \o Join(ws, sh.sep) \o sh.trail

FreeLines == {LineOf(ws, sh) : ws \in WordLists, sh \in Shapes}

Digits == <<"0","1","2","3","4","5","6","7","8","9">>

\* the k-th command of a scripted session: a name that carries k, and on
\* every second line an argument
NumberedLine(k) ==
  LET name == <<"c", Digits[((k \div 10) % 10) + 1], Digits[(k % 10) + 1]>>
  IN  IF k % 2 = 0 THEN name \o <<" ", "a", "\n">> ELSE name \o <<"\n">>

HistoryLine == <<"h","i","s","t","o","r","y","\n">>
ExitLine == <<"e","x","i","t","\n">>
BlankLine == <<" ", "\t", "\n">>

\* a line of n tokens: echo and n - 1 arguments
LongLine(n) ==
  Join([k \in 1..n |-> IF k = 1 THEN builtin_str[4] ELSE <<"a">>], <<" ">>)
    \o <<"\n">>

LongLines ==
  {LongLine(n) :
     n \in (USH_TOK_BUFSIZE - 1)..(USH_TOK_BUFSIZE + MaxExtraTokens)}

\* the lines of a session of directory commands
DirLines ==
  { <<"c","d"," ","d","\n">>, <<"c","d"," ","a","\n">>, <<"c","d","\n">>,
    <<"p","w","d","\n">> }

\* the lines of a session whose input ends
EofLines == { <<"l","s","\n">>, <<"e","c","h","o"," ","a","\n">> }

\* What the buffer of ush_read_line can hold when getline has returned -1
\* at the end of the input.  getline stored nothing: the C library may have
\* put a terminator there, or have allocated the block and left it as
\* malloc gave it, and the bytes are then whatever the block held: nothing,
\* or some text.
Garbage == <<"<garbage>">>
EofBuffers == {<<>>, Garbage}

(***************************************************************************)
(* The state.                                                              *)
(***************************************************************************)
VARIABLES
  pc,           \* where the shell process is in ush_loop
  line,         \* ush_loop's line: the buffer getline returned, or NULL
  args,         \* ush_loop's args: what ush_split_line returned
  status,       \* ush_loop's status
  history_str,  \* the history ring: text or NULL per slot
  history_pos,  \* the history cursor
  cwd,          \* the working directory of the shell process
  out,          \* standard output of this iteration
  err,          \* standard error of this iteration
  listing,      \* the lines ush_history printed in this iteration
  procs,        \* the child processes of the shell
  pid,          \* ush_launch's pid
  mode,         \* the kind of session typed at the terminal
  typed,        \* how many lines of each kind were typed
  heap,         \* the allocator: the blocks malloc has handed out and not yet
                \* got back, and which block each pointer of the shell holds
  raw,          \* the line of this iteration as getline returned it
  recorded      \* the lines add_to_history_util was called for, as typed

vars == <<pc, line, args, status, history_str, history_pos, cwd, out, err,
          listing, procs, pid, heap, mode, typed, raw, recorded>>

Slots == 0..(USH_MAX_HISTORY_COUNT - 1)
Pids == 1..MaxProcs
NoArgs ==
  [tokens |-> <<>>, bufsize |-> 0, slots |-> 0, oob |-> FALSE, endAt |-> 0]
NoProc == [st |-> "none", code |-> 0, execfail |-> FALSE]

Root == <<"/">>
Deep == <<"/", "d">>
PromptText == <<"\n", ">", " ">>

\* The allocator.  A block has an identity, the size in bytes it was asked
\* for and the number of bytes that were written from its start; malloc
\* hands out the lowest identity not in use.  0 stands for the null pointer.
NoBlocks == [i \in {} |-> [size |-> 0, wrote |-> 0]]

malloc(blocks) ==
  CHOOSE i \in 1..(Cardinality(DOMAIN blocks) + 1) :
    /\ i \notin DOMAIN blocks
    /\ \A j \in 1..(i - 1) : j \in DOMAIN blocks

\* blocks once block id has been handed out with the given size and written
Allocated(blocks, id, size, wrote) ==
  [i \in DOMAIN blocks \cup {id} |->
     IF i = id THEN [size |-> size, wrote |-> wrote] ELSE blocks[i]]

\* free(id): free(NULL) does nothing
free(blocks, id) == [i \in DOMAIN blocks \ {id} |-> blocks[i]]

\* main, up to the call of ush_loop
Init ==
  /\ pc = "prompt"
  /\ line = NULL
  /\ args = NoArgs
  /\ status = 1
  /\ history_str = [i \in Slots |-> NULL]
  /\ history_pos = 0
  /\ cwd = Root
  /\ out = <<>>
  /\ err = <<>>
  /\ listing = <<>>
  /\ procs = [p \in Pids |-> NoProc]
  /\ pid = 0
  /\ heap = [blocks |-> NoBlocks, line |-> 0, args |-> 0,
             history |-> [i \in Slots |-> 0]]
  /\ mode \in {"free", "script", "dirs", "long", "eof"}
  /\ typed = [free |-> 0, cmds |-> 0, listings |-> 0, dirs |-> 0, long |-> 0,
              eof |-> 0, eofs |-> 0, ended |-> FALSE]
  /\ raw = NULL
  /\ recorded = <<>>

(***************************************************************************)
(* ush_loop, up to the dispatch.                                           *)
(***************************************************************************)
\* fputs("\n> ", stdout)
Prompt ==
  /\ pc = "prompt"
  /\ out' = out \o PromptText
  /\ pc' = "read"
  /\ UNCHANGED <<heap, line, args, status, history_str, history_pos, cwd, err,
                 listing, procs, pid, mode, typed, raw, recorded>>

\* the lines the terminal can deliver next, each with the count it uses up
Typeable ==
  IF mode = "free"
    THEN IF typed.free < MaxLines
           THEN {[text |-> l, kind |-> "free"] : l \in FreeLines} ELSE {}
  ELSE IF mode = "dirs"
    THEN IF typed.dirs < MaxDirLines
           THEN {[text |-> l, kind |-> "dirs"] : l \in DirLines} ELSE {}
  ELSE IF mode = "long"
    THEN IF typed.long < MaxLongLines
           THEN {[text |-> l, kind |-> "long"] : l \in LongLines} ELSE {}
  ELSE IF mode = "eof"
    THEN IF typed.eof < MaxEofLines /\ ~typed.ended
           THEN {[text |-> l, kind |-> "eof"] : l \in EofLines} ELSE {}
  ELSE (IF typed.cmds < MaxCmds
          THEN {[text |-> NumberedLine(typed.cmds + 1), kind |-> "cmds"]}
          ELSE {})
       \cup (IF typed.listings < MaxListings
               THEN {[text |-> HistoryLine, kind |-> "listings"]} ELSE {})
       \cup {[text |-> BlankLine, kind |-> "none"],
             [text |-> ExitLine, kind |-> "none"]}

\* line = ush_read_line(): getline returns a fresh buffer that holds the
\* line, its newline and the terminator
ush_read_line(l) ==
  /\ line' = l \o <<NUL>>
  /\ raw' = l
  /\ heap' = [heap EXCEPT
                !.blocks = Allocated(@, malloc(@), Len(l) + 1, Len(l) + 1),
                !.line = malloc(heap.blocks)]

\* ush_read_line at the end of the input: the result of getline is not
\* looked at, and the buffer is returned with b in it
ush_read_line_at_eof(b) ==
  /\ line' = b \o <<NUL>>
  /\ raw' = b
  /\ heap' = [heap EXCEPT
                !.blocks = Allocated(@, malloc(@), Len(b) + 1, 0),
                !.line = malloc(heap.blocks)]

ReadLine ==
  /\ pc = "read"
  /\ \/ \E t \in Typeable :
          /\ ush_read_line(t.text)
          /\ typed' = IF t.kind = "none" THEN typed
                      ELSE [typed EXCEPT ![t.kind] = @ + 1]
     \/ /\ mode = "eof"
        /\ typed.eofs < MaxEofReads
        /\ \E b \in EofBuffers : ush_read_line_at_eof(b)
        /\ typed' = [typed EXCEPT !.eofs = @ + 1, !.ended = TRUE]
  /\ pc' = "split"
  /\ UNCHANGED <<args, status, history_str, history_pos, cwd, out, err,
                 listing, procs, pid, mode, recorded>>

AllocationError == <<"ush: allocation error">>
OsError == <<"ush: <strerror>">>

\* fprintf(stderr, "ush: allocation error\n"); exit(EXIT_FAILURE)
Fatal ==
  /\ err' = err \o AllocationError
  /\ pc' = "exited"

\* What the caller can find in the array ush_split_line returned as r.  The
\* pointers written inside the block are there.  Those written past its end
\* may still be there, or be lost: the array then reads as ending where the
\* block ends.
ArraysRead(r) ==
  LET a == [tokens |-> r.tokens, bufsize |-> r.bufsize, slots |-> r.slots,
            oob |-> r.oob, endAt |-> r.endAt]
  IN  IF r.oob
        THEN {a, [a EXCEPT !.tokens = SubSeq(r.tokens, 1, r.slots)]}
        ELSE {a}

\* args = ush_split_line(line): strtok rewrites the line in place and the
\* tokens point into it; the malloc of the token array may fail, and a
\* write outside the block may end the process
SplitLine ==
  /\ pc = "split"
  /\ \/ LET r == ush_split_line(line)
        IN  /\ line' = r.line
            /\ args' \in ArraysRead(r)
            /\ heap' = [heap EXCEPT
                          !.blocks = Allocated(@, malloc(@), r.slots * PtrSize,
                                               (r.endAt + 1) * PtrSize),
                          !.args = malloc(heap.blocks)]
            /\ pc' = "record"
            /\ UNCHANGED err
     \/ /\ ush_split_line(line).oob
        /\ pc' = "aborted"
        /\ UNCHANGED <<line, args, heap, err>>
     \/ /\ Fatal
        /\ UNCHANGED <<line, args, heap>>
  /\ UNCHANGED <<status, history_str, history_pos, cwd, out, listing, procs,
                 pid, mode, typed, raw, recorded>>

(***************************************************************************)
(* The history ring.                                                       *)
(***************************************************************************)
\* add_to_history_util with the cursor wrapping one slot early
add_to_history_util_wraps_early(l) ==
  \/ /\ history_str' = [history_str EXCEPT ![history_pos] = CStr(l, 1)]
     /\ history_pos' = (history_pos + 1) % (USH_MAX_HISTORY_COUNT - 1)
     /\ recorded' = Append(recorded, raw)
     /\ LET rest == free(heap.blocks, heap.history[history_pos])
        IN  heap' = [heap EXCEPT
                       !.blocks = Allocated(rest, malloc(rest), strlen(l, 1),
                                            strlen(l, 1) + 1),
                       !.history[history_pos] = malloc(rest)]
     /\ pc' = "execute"
     /\ UNCHANGED err
  \/ /\ pc' = "aborted"
     /\ UNCHANGED <<history_str, history_pos, recorded, heap, err>>
  \/ /\ Fatal
     /\ UNCHANGED <<history_str, history_pos, recorded, heap>>

\* add_to_history_util(line), called with the line buffer l.  The entry is
\* a block of strlen(line) bytes and strcpy writes strlen(line) + 1 bytes
\* into it: the text lands in the block, its terminator one byte past it.
\* A build that checks the write stops the process there; the others go on
\* with the terminator outside the block.  malloc may fail.
add_to_history_util(l) ==
  \/ /\ history_str' = [history_str EXCEPT ![history_pos] = CStr(l, 1)]
     /\ history_pos' = (history_pos + 1) % USH_MAX_HISTORY_COUNT
     /\ recorded' = Append(recorded, raw)
     /\ LET rest == free(heap.blocks, heap.history[history_pos])
        IN  heap' = [heap EXCEPT
                       !.blocks = Allocated(rest, malloc(rest), strlen(l, 1),
                                            strlen(l, 1) + 1),
                       !.history[history_pos] = malloc(rest)]
     /\ pc' = "execute"
     /\ UNCHANGED err
  \/ /\ pc' = "aborted"
     /\ UNCHANGED <<history_str, history_pos, recorded, heap, err>>
  \/ /\ Fatal
     /\ UNCHANGED <<history_str, history_pos, recorded, heap>>

\* Record without its test of args[0]: every line is recorded
RecordUnguarded ==
  /\ pc = "record"
  /\ add_to_history_util(line)
  /\ UNCHANGED <<line, args, status, cwd, out, listing, procs, pid, mode,
                 typed, raw>>

\* if(args[0] != NULL){ add_to_history_util(line); }
Record ==
  /\ pc = "record"
  /\ IF Arg(line, args, 0) # NULL
       THEN add_to_history_util(line)
       ELSE /\ pc' = "execute"
            /\ UNCHANGED <<history_str, history_pos, recorded, heap, err>>
  /\ UNCHANGED <<line, args, status, cwd, out, listing, procs, pid, mode,
                 typed, raw>>

\* HistoryWalk with ++history_num moved out of the test for NULL
RECURSIVE HistoryWalkCountsEmpty(_, _, _, _, _)
HistoryWalkCountsEmpty(hs, pos, i, num, acc) ==
  LET acc2 == IF hs[i] # NULL
                THEN Append(acc, [num |-> num, text |-> hs[i]]) ELSE acc
      j    == (i + 1) % USH_MAX_HISTORY_COUNT
  IN  IF j = pos THEN acc2 ELSE HistoryWalkCountsEmpty(hs, pos, j, num + 1, acc2)

\* The do-while of ush_history from slot i with the running number num:
\* the lines printed, as number and text, for the ring hs with cursor pos.
RECURSIVE HistoryWalk(_, _, _, _, _)
HistoryWalk(hs, pos, i, num, acc) ==
  LET shown == hs[i] # NULL
      acc2  == IF shown THEN Append(acc, [num |-> num, text |-> hs[i]]) ELSE acc
      num2  == IF shown THEN num + 1 ELSE num
      j     == (i + 1) % USH_MAX_HISTORY_COUNT
  IN  IF j = pos THEN acc2 ELSE HistoryWalk(hs, pos, j, num2, acc2)

HistoryLines(hs, pos) == HistoryWalk(hs, pos, pos, 1, <<>>)

\* what printf("%s") shows of an entry whose terminator lies outside its
\* block once that byte has been overwritten
Garbled(text) == text \o <<"?">>

\* The listings ush_history can print: every text as stored, or one of
\* them running on past the end of its block.
PrintedListings(hs, pos) ==
  LET ls == HistoryLines(hs, pos)
  IN  {ls} \cup {[ls EXCEPT ![k].text = Garbled(@)] : k \in 1..Len(ls)}

(***************************************************************************)
(* The builtin handlers.  Each one gives the next value of cwd, out, err,  *)
(* listing, procs, pid, status and pc.                                     *)
(***************************************************************************)
\* return s, back in ush_loop after the call of ush_execute
Return(s) ==
  /\ status' = s
  /\ pc' = "release"

\* chdir(path) in directory dir: the directory reached, NULL when it fails.
\* The file system has the root and one directory d in it.
chdir(dir, path) == IF dir = Root /\ path = DirWord THEN Deep ELSE NULL

\* ush_cd with chdir called on args[0]
ush_cd_wrong_arg ==
  /\ IF Arg(line, args, 1) = NULL
       THEN /\ err' = err \o <<"ush: expected argument with \"cd\"">>
            /\ UNCHANGED cwd
     ELSE IF chdir(cwd, Arg(line, args, 0)) = NULL
       THEN /\ err' = err \o OsError
            /\ UNCHANGED cwd
     ELSE /\ cwd' = chdir(cwd, Arg(line, args, 0))
          /\ UNCHANGED err
  /\ Return(1)
  /\ UNCHANGED <<heap, out, listing, procs, pid>>

ush_cd ==
  /\ IF Arg(line, args, 1) = NULL
       THEN /\ err' = err \o <<"ush: expected argument with \"cd\"">>
            /\ UNCHANGED cwd
     ELSE IF chdir(cwd, Arg(line, args, 1)) = NULL
       THEN /\ err' = err \o OsError
            /\ UNCHANGED cwd
     ELSE /\ cwd' = chdir(cwd, Arg(line, args, 1))
          /\ UNCHANGED err
  /\ Return(1)
  /\ UNCHANGED <<heap, out, listing, procs, pid>>

\* the lines of ush_help's loop from builtin i on
RECURSIVE HelpNames(_)
HelpNames(i) ==
  IF i > ush_num_builtins THEN <<>>
  ELSE <<"\t">> \o builtin_str[i] \o <<"\n">> \o HelpNames(i + 1)

ush_help ==
  /\ out' = out \o <<"<banner>">> \o HelpNames(1)
  /\ Return(1)
  /\ UNCHANGED <<heap, cwd, err, listing, procs, pid>>

ush_exit ==
  /\ Return(0)
  /\ UNCHANGED <<heap, cwd, out, err, listing, procs, pid>>

\* the text ush_echo's loop prints from args[i] on
\* what the loop prints for args[lo] .. args[hi], none of them NULL
RECURSIVE EchoLoop(_, _, _, _)
EchoLoop(buf, a, lo, hi) ==
  IF lo > hi THEN <<>>
  ELSE IF lo = hi THEN Arg(buf, a, lo) \o <<" ">>
  ELSE EchoLoop(buf, a, lo, (lo + hi) \div 2)
         \o EchoLoop(buf, a, ((lo + hi) \div 2) + 1, hi)

ush_echo ==
  /\ out' = out \o EchoLoop(line, args, 1, Len(args.tokens) - 1) \o <<"\n">>
  /\ Return(1)
  /\ UNCHANGED <<heap, cwd, err, listing, procs, pid>>

ush_history ==
  /\ listing' \in PrintedListings(history_str, history_pos)
  /\ Return(1)
  /\ UNCHANGED <<heap, cwd, out, err, procs, pid>>

\* the bytes getcwd needs for the path of directory dir
PathBytes(dir) == (IF dir = Root THEN 1 ELSE DeepLen) + 1

\* what pathconf(".", _PC_PATH_MAX) can return
PathMaxHints == {-1, 4096, 20000}

PwdFirstSize(path_max) ==
  IF path_max = -1 THEN 1024
  ELSE IF path_max > 10240 THEN 10240
  ELSE path_max

\* the size of the buffer at which getcwd stops failing with ERANGE (the
\* sizes reached stay far below the width of size, an unsigned int, for
\* every path a directory can have)
RECURSIVE PwdFinalSize(_, _)
PwdFinalSize(size, need) ==
  IF size >= need THEN size ELSE PwdFinalSize(size * 2, need)

\* the sizes buf goes through on the way there
RECURSIVE PwdSizes(_, _)
PwdSizes(size, need) ==
  IF size >= need THEN {size} ELSE {size} \cup PwdSizes(size * 2, need)

\* ush_pwd: the path is printed once the buffer holds it, and the buffer is
\* freed; getcwd can fail for another reason than the size, at any size of
\* the buffer, and the function then returns with the buffer as it is; and
\* realloc can fail
ush_pwd ==
  /\ \E path_max \in PathMaxHints :
       \/ LET size == PwdFinalSize(PwdFirstSize(path_max), PathBytes(cwd))
              buf  == malloc(heap.blocks)
          IN  /\ size >= PathBytes(cwd)
              /\ out' = out \o cwd
              /\ heap' = [heap EXCEPT
                            !.blocks = free(Allocated(@, buf, size,
                                                      PathBytes(cwd)), buf)]
              /\ Return(1)
              /\ UNCHANGED err
       \/ /\ err' = err \o OsError
          /\ \E size \in PwdSizes(PwdFirstSize(path_max), PathBytes(cwd)) :
               heap' = [heap EXCEPT
                          !.blocks = Allocated(@, malloc(@), size, 0)]
          /\ Return(1)
          /\ UNCHANGED out
       \/ /\ Fatal
          /\ UNCHANGED <<out, heap, status>>
  /\ UNCHANGED <<cwd, listing, procs, pid>>

(***************************************************************************)
(* The launcher.                                                           *)
(***************************************************************************)
FreePids == {p \in Pids : procs[p].st = "none"}

\* ush_launch whose parent branch is taken when fork failed too
ush_launch_waits_on_failure ==
  /\ \/ /\ pid' = -1
        /\ err' = err \o OsError
        /\ pc' = "wait"
        /\ UNCHANGED <<procs, status>>
     \/ /\ FreePids # {}
        /\ LET p == CHOOSE q \in FreePids : \A r \in FreePids : q <= r
           IN  /\ pid' = p
               /\ procs' = [procs EXCEPT ![p] = [NoProc EXCEPT !.st = "forked"]]
        /\ pc' = "wait"
        /\ UNCHANGED <<err, status>>
  /\ UNCHANGED <<heap, cwd, out, listing>>

\* ush_launch up to the wait: fork fails, or the child exists and the
\* parent goes on to wait for it
ush_launch ==
  /\ \/ /\ pid' = -1
        /\ err' = err \o OsError
        /\ Return(1)
        /\ UNCHANGED procs
     \/ /\ FreePids # {}
        /\ LET p == CHOOSE q \in FreePids : \A r \in FreePids : q <= r
           IN  /\ pid' = p
               /\ procs' = [procs EXCEPT ![p] = [NoProc EXCEPT !.st = "forked"]]
        /\ pc' = "wait"
        /\ UNCHANGED <<err, status>>
  /\ UNCHANGED <<heap, cwd, out, listing>>

\* the child after execvp returned -1, without the exit: it reports the
\* error and returns from ush_launch as a second shell
ChildExecFailedReturns(p) ==
  /\ err' = err \o OsError
  /\ procs' = [procs EXCEPT ![p] =
                 [st |-> "shell", code |-> 0, execfail |-> TRUE]]

\* the child after execvp returned -1: perror, exit(EXIT_FAILURE)
ChildExecFailed(p) ==
  /\ err' = err \o OsError
  /\ procs' = [procs EXCEPT ![p] =
                 [st |-> "zombie", code |-> EXIT_FAILURE, execfail |-> TRUE]]

\* the child (pid == 0): execvp(args[0], args)
ChildExec(p) ==
  /\ procs[p].st = "forked"
  /\ \/ /\ procs' = [procs EXCEPT ![p].st = "running"]
        /\ UNCHANGED err
     \/ ChildExecFailed(p)
  /\ UNCHANGED <<heap, pc, line, args, status, history_str, history_pos, cwd,
                 out, listing, pid, mode, typed, raw, recorded>>

\* the program the child became ends with some status
ChildExit(p) ==
  /\ procs[p].st = "running"
  /\ \E c \in {EXIT_SUCCESS, EXIT_FAILURE} :
       procs' = [procs EXCEPT ![p] = [@ EXCEPT !.st = "zombie", !.code = c]]
  /\ UNCHANGED <<heap, pc, line, args, status, history_str, history_pos, cwd,
                 out, err, listing, pid, mode, typed, raw, recorded>>

\* the parent with a wait that does not block
WaitNoHang ==
  /\ pc = "wait"
  /\ \/ \E p \in Pids :
          /\ procs[p].st = "zombie"
          /\ procs' = [procs EXCEPT ![p] = NoProc]
     \/ UNCHANGED procs
  /\ Return(1)
  /\ UNCHANGED <<heap, line, args, history_str, history_pos, cwd, out, err,
                 listing, pid, mode, typed, raw, recorded>>

\* the parent returning the status of the child it waited for
WaitReturnsChildStatus ==
  /\ pc = "wait"
  /\ \/ \E p \in Pids :
          /\ procs[p].st = "zombie"
          /\ procs' = [procs EXCEPT ![p] = NoProc]
          /\ Return(procs[p].code)
     \/ /\ \A p \in Pids : procs[p].st = "none"
        /\ UNCHANGED procs
        /\ Return(1)
  /\ UNCHANGED <<heap, line, args, history_str, history_pos, cwd, out, err,
                 listing, pid, mode, typed, raw, recorded>>

\* the parent: wait(NULL) returns once it has reaped a terminated child, or
\* at once when the process has no child; then return 1
Wait ==
  /\ pc = "wait"
  /\ \/ \E p \in Pids :
          /\ procs[p].st = "zombie"
          /\ procs' = [procs EXCEPT ![p] = NoProc]
     \/ /\ \A p \in Pids : procs[p].st = "none"
        /\ UNCHANGED procs
  /\ Return(1)
  /\ UNCHANGED <<heap, line, args, history_str, history_pos, cwd, out, err,
                 listing, pid, mode, typed, raw, recorded>>

(***************************************************************************)
(* The dispatcher and the end of the iteration.                            *)
(***************************************************************************)
\* a name with its capital letters made small
Lower(name) ==
  [k \in 1..Len(name) |->
     CASE name[k] = "C" -> "c" [] name[k] = "D" -> "d" [] name[k] = "E" -> "e"
       [] name[k] = "H" -> "h" [] name[k] = "P" -> "p" [] OTHER -> name[k]]

\* BuiltinIndex with strcasecmp in place of strcmp
RECURSIVE BuiltinIndexNoCase(_, _)
BuiltinIndexNoCase(name, i) ==
  IF i > ush_num_builtins THEN 0
  ELSE IF Lower(name) = builtin_str[i] THEN i
  ELSE BuiltinIndexNoCase(name, i + 1)

\* the index of the first builtin at or after i whose name is name, 0: none
RECURSIVE BuiltinIndex(_, _)
BuiltinIndex(name, i) ==
  IF i > ush_num_builtins THEN 0
  ELSE IF name = builtin_str[i] THEN i
  ELSE BuiltinIndex(name, i + 1)

builtin_func(i) ==
  CASE i = 1 -> ush_cd
    [] i = 2 -> ush_help
    [] i = 3 -> ush_exit
    [] i = 4 -> ush_echo
    [] i = 5 -> ush_history
    [] i = 6 -> ush_pwd

\* ush_execute without the test of args[0] against NULL
ush_execute_without_null_test ==
  IF BuiltinIndex(Arg(line, args, 0), 1) # 0
    THEN builtin_func(BuiltinIndex(Arg(line, args, 0), 1))
  ELSE ush_launch

ush_execute ==
  IF Arg(line, args, 0) = NULL
    THEN /\ Return(1)
         /\ UNCHANGED <<heap, cwd, out, err, listing, procs, pid>>
  ELSE IF BuiltinIndex(Arg(line, args, 0), 1) # 0
    THEN builtin_func(BuiltinIndex(Arg(line, args, 0), 1))
  ELSE ush_launch

\* status = ush_execute(args)
Execute ==
  /\ pc = "execute"
  /\ ush_execute
  /\ UNCHANGED <<line, args, history_str, history_pos, mode, typed, raw,
                 recorded>>

\* free(line); free(args); while (status).  What the iteration printed and
\* the locals of the calls it made are forgotten here.
\* Release without free(args)
ReleaseKeepsArgs ==
  /\ pc = "release"
  /\ line' = NULL
  /\ args' = NoArgs
  /\ heap' = [heap EXCEPT !.blocks = free(@, heap.line),
                          !.line = 0, !.args = 0]
  /\ pc' = IF status # 0 THEN "prompt" ELSE "stopped"
  /\ raw' = NULL
  /\ pid' = 0
  /\ out' = <<>>
  /\ err' = <<>>
  /\ listing' = <<>>
  /\ UNCHANGED <<status, history_str, history_pos, cwd, procs, mode, typed,
                 recorded>>

Release ==
  /\ pc = "release"
  /\ line' = NULL
  /\ args' = NoArgs
  /\ heap' = [heap EXCEPT !.blocks = free(free(@, heap.line), heap.args),
                          !.line = 0, !.args = 0]
  /\ pc' = IF status # 0 THEN "prompt" ELSE "stopped"
  /\ raw' = NULL
  /\ pid' = 0
  /\ out' = <<>>
  /\ err' = <<>>
  /\ listing' = <<>>
  /\ UNCHANGED <<status, history_str, history_pos, cwd, procs, mode, typed,
                 recorded>>

Next ==
  \/ Prompt
  \/ ReadLine
  \/ SplitLine
  \/ Record
  \/ Execute
  \/ Wait
  \/ Release
  \/ \E p \in Pids : ChildExec(p)
  \/ \E p \in Pids : ChildExit(p)

Spec == Init /\ [][Next]_vars

(***************************************************************************)
(* Properties.                                                             *)
(***************************************************************************)
Arg0 == Arg(line, args, 0)
CdName == builtin_str[1]
ExitName == builtin_str[3]
EchoName == builtin_str[4]
HistoryName == builtin_str[5]
PwdName == builtin_str[6]

\* the slot add_to_history_util wrote last
LastSlot == (history_pos + USH_MAX_HISTORY_COUNT - 1) % USH_MAX_HISTORY_COUNT

\* a line with no command: every character is a delimiter
NoCommand(l) == \A i \in 1..Len(l) : l[i] \in USH_TOK_DELIM

\* a typed line without its newline
Chomp(l) == IF l # <<>> /\ l[Len(l)] = "\n" THEN SubSeq(l, 1, Len(l) - 1) ELSE l

IsPrefix(s, t) == Len(s) <= Len(t) /\ SubSeq(t, 1, Len(s)) = s

\* the first word of a text: its first maximal run of non-delimiters
FirstWord(l) ==
  LET s == SkipDelims(l, 1)
      e == FindDelim(l, s)
  IN  SubSeq(l, s, IF e = 0 THEN NulAt(l, s) - 1 ELSE e - 1)

\* the last n elements of a sequence
LastN(s, n) == SubSeq(s, Len(s) - n + 1, Len(s))

\* C1: in every iteration whose line has a command, the entry stored in the
\* history ring equals the full line as it was read, every token and every
\* separator of it (the newline that ends the line is not held against it).
C1_EntryIsRawLine ==
  (pc = "execute" /\ Arg0 # NULL) => history_str[LastSlot] \in {raw, Chomp(raw)}

\* C2: once more than 20 commands were recorded, history lists exactly the
\* 20 commands recorded last, oldest first, numbered 1..20.
C2_ListsLast20Commands ==
  (pc = "release" /\ Arg0 = HistoryName /\ Len(recorded) > USH_MAX_HISTORY_COUNT)
    => listing = [k \in 1..USH_MAX_HISTORY_COUNT |->
                    [num |-> k,
                     text |-> Chomp(LastN(recorded, USH_MAX_HISTORY_COUNT)[k])]]

\* C3: while at most 20 commands were recorded, history lists one line per
\* recorded command, in the order they were entered, numbered 1..N without
\* a gap; the slots never written show nowhere.
C3_ListsAllInOrder ==
  (pc = "release" /\ Arg0 = HistoryName /\ Len(recorded) <= USH_MAX_HISTORY_COUNT)
    => /\ Len(listing) = Len(recorded)
       /\ \A k \in 1..Len(listing) :
            /\ listing[k].num = k
            /\ listing[k].text # NULL
            /\ IsPrefix(FirstWord(recorded[k]), FirstWord(listing[k].text))

C3_Witness ==
  /\ pc = "release"
  /\ Arg0 = HistoryName
  /\ Len(recorded) = 12
  /\ Len(listing) = 12
  /\ history_str[history_pos] = NULL

\* C4: an iteration whose line has no command leaves the history ring as it
\* was, cursor and slots, and no listing ever shows such a line.
C4_BlankLineKeepsHistory ==
  [][ /\ (raw # NULL /\ NoCommand(raw)) => UNCHANGED <<history_str, history_pos>>
      /\ \A k \in 1..Len(listing') : ~NoCommand(listing'[k].text) ]_vars

C4_Witness ==
  /\ pc = "release"
  /\ raw # NULL
  /\ NoCommand(raw)
  /\ Len(recorded) >= 3
  /\ history_pos = 3

\* C5: the loop stops only after the dispatch of a line whose first token is
\* exit; the dispatch of anything else (another builtin, an external command
\* whatever became of it, an empty line) returns 1 and the loop prompts again.
C5_OnlyExitStops ==
  [][ /\ pc' = "stopped" =>
           (pc = "stopped" \/ (pc = "release" /\ Arg0 = ExitName))
      /\ (pc = "release" /\ Arg0 # ExitName /\ pc' # pc) => pc' = "prompt"
      /\ (pc \in {"execute", "wait"} /\ pc' = "release") =>
           status' = IF Arg0 = ExitName THEN 0 ELSE 1 ]_vars

C5_Witness ==
  /\ pc = "stopped"
  /\ Len(recorded) >= 3
  /\ LastN(recorded, 1)[1] = ExitLine

\* C6: echo prints its arguments separated by single spaces and then one
\* newline, nothing else: no space before the newline.
C6_EchoExact ==
  (pc = "release" /\ Arg0 = EchoName)
    => out = PromptText
               \o Join([k \in 1..(Len(args.tokens) - 1) |-> Arg(line, args, k)],
                       <<" ">>)
               \o <<"\n">>

\* C7: a child exists only while the shell is blocked in wait for it: at the
\* prompt and everywhere else the shell has no live and no unreaped child,
\* and there is never more than one.
C7_ChildReapedBeforePrompt ==
  /\ Cardinality({p \in Pids : procs[p].st # "none"}) <= 1
  /\ pc # "wait" => \A p \in Pids : procs[p].st = "none"

C7_Witness ==
  /\ pc = "release"
  /\ pid > 0
  /\ typed.cmds >= 2
  /\ err = <<>>
  /\ \A p \in Pids : procs[p] = NoProc

\* C8: a child whose exec failed has reported the error and is terminated
\* with a failure status; no child is ever back in the shell's code; the
\* parent returns 1 from the launch.
C8_ExecFailureEndsChild ==
  /\ \A p \in Pids :
       /\ procs[p].st \in {"none", "forked", "running", "zombie"}
       /\ procs[p].execfail =>
            /\ procs[p].st = "zombie"
            /\ procs[p].code = EXIT_FAILURE
            /\ err # <<>>
            /\ LastN(err, 1) = OsError
  /\ (pc = "release" /\ pid > 0) => status = 1

C8_Witness ==
  /\ pc = "release"
  /\ pid > 0
  /\ err = OsError
  /\ status = 1

\* C9: cd with the name of an existing directory makes it the working
\* directory; cd with another name or without argument reports an error and
\* leaves the working directory as it was; both return 1.  What pwd prints
\* is the working directory.
C9_CdAndPwd ==
  [][ /\ (pc = "execute" /\ Arg0 = CdName) =>
           /\ pc' = "release"
           /\ status' = 1
           /\ IF Arg(line, args, 1) = DirWord /\ cwd = Root
                THEN cwd' = Deep /\ err' = err
                ELSE cwd' = cwd /\ Len(err') = Len(err) + 1
      /\ (pc = "execute" /\ Arg0 = PwdName /\ out' # out) =>
           /\ out' = out \o cwd
           /\ cwd' = cwd
           /\ status' = 1 ]_vars

C9_Witness ==
  /\ pc = "release"
  /\ Arg0 = PwdName
  /\ typed.dirs = 3
  /\ out = PromptText \o Deep

\* C10: when fork fails the launch reports the error, does not wait and
\* returns 1, and the loop goes on to the next prompt.
C10_ForkFailureContinues ==
  [][ /\ (pid' = -1 /\ pid # -1) =>
           /\ pc' = "release"
           /\ status' = 1
           /\ err' = err \o OsError
           /\ procs' = procs
      /\ pid = -1 => (pc = "release" /\ pc' \in {"release", "prompt"}) ]_vars

C10_Witness ==
  /\ pc = "release"
  /\ pid = -1
  /\ status = 1

BuiltinNames == {builtin_str[i] : i \in 1..ush_num_builtins}
HelpName == builtin_str[2]
Contains(s, x) == \E k \in 1..Len(s) : s[k] = x

\* C11: for a non-empty argument list the dispatch runs the handler of the
\* builtin whose name is args[0], letter for letter, returns its result and
\* creates no process; it goes to the launcher exactly when args[0] is none
\* of the six names.
C11_DispatchByExactName ==
  [][ (pc = "execute" /\ Arg0 # NULL) =>
        /\ Arg0 \in BuiltinNames =>
             /\ procs' = procs
             /\ pid' = pid
             /\ pc' \in {"release", "exited"}
             /\ pc' = "release" => status' = IF Arg0 = ExitName THEN 0 ELSE 1
        /\ Arg0 = CdName =>
             /\ cwd' # cwd \/ Len(err') = Len(err) + 1
             /\ out' = out /\ listing' = listing
        /\ Arg0 = HelpName =>
             /\ Contains(out', "<banner>")
             /\ UNCHANGED <<cwd, err, listing>>
        /\ Arg0 = ExitName => UNCHANGED <<cwd, out, err, listing>>
        /\ Arg0 = EchoName =>
             /\ Len(out') > Len(out)
             /\ out'[Len(out')] = "\n"
             /\ ~Contains(out', "<banner>")
             /\ UNCHANGED <<cwd, err, listing>>
        /\ Arg0 = HistoryName =>
             /\ listing' # <<>>
             /\ UNCHANGED <<cwd, out, err>>
        /\ Arg0 = PwdName =>
             /\ out' = out \o cwd \/ Len(err') = Len(err) + 1
             /\ UNCHANGED <<cwd, listing>>
        /\ Arg0 \notin BuiltinNames =>
             /\ pid' # 0
             /\ pid' = -1 \/ (procs[pid'].st = "none" /\ procs'[pid'].st = "forked")
             /\ pc' \in {"wait", "release"}
             /\ UNCHANGED <<cwd, out, listing>> ]_vars

C11_Witness ==
  /\ pc = "wait"
  /\ Arg0 = CapitalWord
  /\ Len(args.tokens) = 2
  /\ procs[pid].st = "forked"

\* the places where a token of l starts: a non-delimiter at the start of the
\* line or after a delimiter
TokenStarts(l) ==
  {i \in 1..Len(l) : l[i] \notin USH_TOK_DELIM /\ (i = 1 \/ l[i - 1] \in USH_TOK_DELIM)}

\* the maximal run of non-delimiters of l that starts at i
RunFrom(l, i) ==
  LET j == CHOOSE e \in i..Len(l) :
             /\ \A k \in i..e : l[k] \notin USH_TOK_DELIM
             /\ e = Len(l) \/ l[e + 1] \in USH_TOK_DELIM
  IN  SubSeq(l, i, j)

\* the maximal non-empty delimiter-free substrings of l, left to right
MaximalRuns(l) ==
  LET S == TokenStarts(l)
  IN  [k \in 1..Cardinality(S) |->
         RunFrom(l, CHOOSE i \in S : Cardinality({j \in S : j < i}) = k - 1)]

\* the argument list as the caller reads it
ArgList == [k \in 1..Len(args.tokens) |-> Arg(line, args, k - 1)]

\* C12: for every line the tokenizer returns exactly the maximal non-empty
\* substrings without a delimiter, left to right and unchanged, and the end
\* marker right after the last of them.
C12_TokensAreMaximalRuns ==
  pc = "record" =>
    /\ ArgList = MaximalRuns(raw)
    /\ args.endAt = Len(MaximalRuns(raw))

\* C14: the argument array has room for 64 pointers at first and for twice
\* as many each time it fills: no token and no end marker is written at an
\* index outside the block.
C14_WritesStayInBlock ==
  pc = "record" =>
    /\ ~args.oob
    /\ args.slots = args.bufsize
    /\ args.endAt < args.slots

\* C13: a line of delimiters only, or an empty line, tokenizes to a list
\* whose first element is the end marker; executing that list runs no
\* builtin handler, launches no process and returns 1.
C13_EmptyLineIsNoOp ==
  [][ /\ (pc = "split" /\ pc' = "record" /\ NoCommand(raw)) =>
           /\ args'.tokens = <<>>
           /\ args'.endAt = 0
           /\ ~args'.oob
           /\ Arg(line', args', 0) = NULL
      /\ (pc = "execute" /\ NoCommand(raw)) =>
           /\ pc' = "release"
           /\ status' = 1
           /\ UNCHANGED <<cwd, out, err, listing, procs, pid, history_str,
                          history_pos>> ]_vars

C13_Witness ==
  /\ pc = "release"
  /\ Len(raw) >= 2
  /\ NoCommand(raw)
  /\ args.tokens = <<>>
  /\ status = 1
  /\ pid = 0

\* the blocks in use
Live == DOMAIN heap.blocks
\* the blocks the history ring points to
EntryBlocks == {heap.history[i] : i \in Slots} \ {0}

\* C15: the block of a history entry has at least one byte more than the
\* measured length of the line, so the copy of the line with its terminator
\* stays inside the block.
C15_EntryBlockHoldsTerminator ==
  \A i \in Slots :
    heap.history[i] # 0 =>
      /\ heap.blocks[heap.history[i]].size >= Len(history_str[i]) + 1
      /\ heap.blocks[heap.history[i]].wrote <= heap.blocks[heap.history[i]].size

\* the ring as C16 wants it: cursor in range, as many entries as commands
\* were recorded up to 20, and at the cursor an empty slot or the oldest
\* entry still kept
RingInOrder ==
  /\ history_pos \in Slots
  /\ Cardinality({i \in Slots : history_str[i] # NULL})
       = IF Len(recorded) < USH_MAX_HISTORY_COUNT
           THEN Len(recorded) ELSE USH_MAX_HISTORY_COUNT
  /\ IF Len(recorded) < USH_MAX_HISTORY_COUNT
       THEN history_str[history_pos] = NULL
       ELSE /\ history_str[history_pos] # NULL
            /\ IsPrefix(history_str[history_pos],
                        recorded[Len(recorded) - USH_MAX_HISTORY_COUNT + 1])
            /\ FirstWord(history_str[history_pos])
                 = FirstWord(recorded[Len(recorded) - USH_MAX_HISTORY_COUNT + 1])

\* C16: the cursor stays in 0..19, the number of non-empty slots is the
\* number of recorded commands up to 20, the slot at the cursor is empty or
\* holds the oldest entry kept, and a record writes the slot at the cursor
\* only and moves the cursor on by one modulo 20.
C16_RingCursor ==
  [][ /\ RingInOrder
      /\ RingInOrder'
      /\ (history_str' # history_str \/ history_pos' # history_pos
            \/ recorded' # recorded) =>
           /\ pc = "record"
           /\ \A i \in Slots \ {history_pos} : history_str'[i] = history_str[i]
           /\ history_str'[history_pos] # NULL
           /\ history_pos' = (history_pos + 1) % USH_MAX_HISTORY_COUNT
           /\ Len(recorded') = Len(recorded) + 1 ]_vars

C16_Witness ==
  /\ pc = "execute"
  /\ Len(recorded) = USH_MAX_HISTORY_COUNT + 2
  /\ history_pos = 2
  /\ \A i \in Slots : history_str[i] # NULL

\* C17: the line buffer and the argument list are in use from the read and
\* the split until the dispatch is over, are each freed once, by the release
\* step, before the next prompt, and no history entry is the line buffer.
C17_LineAndArgsFreedOnce ==
  [][ /\ pc = "release" =>
           /\ heap.line \in Live
           /\ heap.args \in Live
           /\ heap.line # heap.args
           /\ DOMAIN heap'.blocks = Live \ {heap.line, heap.args}
           /\ pc' \in {"prompt", "stopped"}
      /\ pc # "release" =>
           /\ heap.line # 0 =>
                heap'.line = heap.line /\ heap.line \in DOMAIN heap'.blocks
           /\ heap.args # 0 =>
                heap'.args = heap.args /\ heap.args \in DOMAIN heap'.blocks
      /\ pc' \in {"record", "execute", "wait", "release"} =>
           /\ heap'.line \in DOMAIN heap'.blocks
           /\ heap'.args \in DOMAIN heap'.blocks
      /\ pc' \in {"prompt", "stopped"} => heap'.line = 0 /\ heap'.args = 0
      /\ \A i \in Slots :
           heap'.history[i] # 0 =>
             /\ heap'.history[i] \in DOMAIN heap'.blocks
             /\ heap'.history[i] \notin {heap'.line, heap'.args} ]_vars

C17_Witness ==
  /\ pc = "stopped"
  /\ heap.line = 0
  /\ heap.args = 0
  /\ Len(recorded) >= 3
  /\ Cardinality(Live) = Len(recorded)

\* C19: at every prompt the only blocks in use are the history entries, at
\* most 20 of them: every handler has freed what it allocated and every
\* overwritten entry has been freed.
C19_OnlyEntriesLiveAtPrompt ==
  pc = "prompt" =>
    /\ Live = EntryBlocks
    /\ Cardinality(Live) <= USH_MAX_HISTORY_COUNT

\* C18: at the end of the input the read is an ordinary empty line:
\* nothing is recorded, no builtin runs and no process is launched, and the
\* loop goes back to the prompt: it never stops once the input has ended.
C18_EofIsEmptyLine ==
  [][ typed.ended =>
        /\ UNCHANGED <<history_str, history_pos, procs, cwd>>
        /\ pid' = 0
        /\ listing' = <<>>
        /\ pc = "split" => args'.tokens = <<>>
        /\ pc = "execute" => pc' = "release" /\ status' = 1
        /\ pc' # "stopped" ]_vars

====
